---- MODULE Spec2Model ----
(***************************************************************************)
(* Step Functions execution backend: the Execution entity                  *)
(* (backend/execution.py), the worker it owns, and the Task state.         *)
(*                                                                         *)
(* The Execution entity is modelled statement by statement: every line of  *)
(* start(), stop() and the completion callback terminated() that reads or  *)
(* writes a field of the Execution is one step, so that calls running on   *)
(* different threads interleave as they do in the interpreter.             *)
(*                                                                         *)
(* Further parts, each on variables of its own: the Task state's Retry and *)
(* Catch resolution, the Parallel state with the shared Event History,     *)
(* StateTask's _from_error / _eval_parameters / _eval_body, and the IAM    *)
(* role resource provider (update, delete, create).                        *)
(***************************************************************************)
EXTENDS Integers, Sequences, FiniteSets, TLC

\* ------------------------------------------------------------------ bounds
\* Number of threads that call Execution.start() on the one Execution.
NumCallers == 2
\* Largest number of branches a Parallel/Map state fans out into.
MaxBranches == 2

\* Largest MaxAttempts of a Retrier.
MaxAttemptsBound == 3
\* Largest number of failures of the Task's collaborator before it succeeds.
MaxFailures == 4
\* How often the Task state is entered (loops, Map items).
MaxEntries == 1
\* Largest number of history events one branch appends.
MaxBranchEvents == 2
\* Largest depth of the value stack when a Task evaluates its Parameters.
MaxStackDepth == 2
\* Largest number of managed policies, and of inline policies, of an IAM role.
MaxPolicies == 2

Callers == 1..NumCallers
\* The worker constructed by caller t's start() call is worker t.
Workers == Callers

\* ------------------------------------------------------------------ values
None == "None"
NoWorker == 0

\* Documents an Environment's value stack can hold as its current input.
Docs == {"doc_in", "doc_out"}
\* The arguments the Execution is constructed with.
NameArg == "exec-name"
RoleArnArg == "arn:role"
ExecArnArg == "arn:execution"
StateMachineArg == "state_machine"
StartDateArg == "start"
InputDataArg == "doc_in"

\* The uncaught failures a program can end with: error name and cause.
Failures == {<<"States.TaskFailed", "task failed">>, <<"States.Timeout", "timed out">>}

TerminalStatuses == {"SUCCEEDED", "FAILED", "ABORTED"}
TerminalKinds == {"ProgramEnded", "ProgramStopped", "ProgramError"}

\* to_json_str(value, separators=(",", ":")): the compact JSON text of a document.
to_json_str(doc) ==
    CASE doc = "doc_in" -> "{\"a\":1}"
      [] doc = "doc_out" -> "{\"a\":1,\"r\":2}"
      [] OTHER -> "null"

\* datetime.datetime.now()
Now == "now"

VARIABLES
    \* ---- fields of the Execution declared Final
    name,
    role_arn,
    exec_arn,
    state_machine,
    start_date,
    input_data,
    \* ---- fields of the Execution written after construction
    exec_worker,     \* NoWorker or the worker the Execution refers to
    exec_status,     \* None, RUNNING, SUCCEEDED, FAILED, ABORTED
    stop_date,
    output,
    error,
    cause,
    \* ---- callers of start(): position in the method, or how the call ended
    pc,
    \* ---- the caller of stop(): position, and its local exec_worker
    stop_pc,
    stop_local,
    \* ---- the notification sink: the entry of every put_events call, in
    \* order, and how the latest call ended ("ok", "raised")
    events,
    put_events_result,
    \* ---- the workers
    program_state,   \* [kind, error, cause] of the worker's Environment
    env_inp,         \* env.inp of the worker's Environment
    stop_signal,     \* cancellation signal set on the worker's root Environment
    wpc,             \* position of the worker's thread
    branches,        \* child Environments of the worker still running
    exit_program_state  \* local of terminated(), per worker thread

\* ---- one Task state with a Retrier, evaluated by a worker
VARIABLES
    retrier,         \* [error_equals, max_attempts, interval_seconds, backoff_rate]
    fail_plan,       \* the collaborator fails this many invocations, then succeeds
    task_error,      \* the error name its failures carry
    attempts,        \* the retrier's attempt counter for this state invocation
    invocations,     \* invokeResource calls of this state invocation
    delay,           \* the latest backoff delay
    history,         \* history entries of this state invocation, in order
    entries,         \* how often the Task state has been entered
    task_pc,         \* position in the Task's evaluation
    catcher,         \* [error_equals, next, result_path]; matches nothing if absent
    task_output,     \* the document the Task leaves as the execution data
    next_state,      \* the state control transitions to
    context_task     \* context_object["Task"] of the Environment

taskVars == <<retrier, fail_plan, task_error, attempts, invocations, delay,
              history, entries, task_pc, catcher, task_output, next_state,
              context_task>>

\* ---- one Parallel state, its branches and the execution's event history
VARIABLES
    par_pc,          \* "idle", "join" (waiting for the branches), "finalized"
    par_outcome,     \* None, or "failed" once a branch has failed
    par_program_state,  \* Program State kind the Parallel state leaves
    par_output,      \* the state's output, NoDoc while none is produced
    branch_pc,       \* per branch: position of its concurrent unit
    branch_plan,     \* per branch: "succeed" or "fail", what its program does
    branch_left,     \* per branch: events it still appends before it ends
    branch_signal,   \* per branch: cancellation signal of its Environment
    event_history,   \* the shared Event History: [id, branch] in append order
    event_id_counter,   \* the shared sequence counter
    append_lock,     \* 0 or the branch holding the append lock
    pending_id       \* per branch: the identifier it has drawn, 0 if none

parVars == <<par_pc, par_outcome, par_program_state, par_output, branch_pc,
             branch_plan, branch_left, branch_signal, event_history,
             event_id_counter, append_lock, pending_id>>

\* ---- StateTask._from_error and StateTask._eval_parameters: the latest call
VARIABLES
    raised_ex,            \* the exception _from_error was called with
    failure_event,        \* the FailureEvent it returned
    parameters,           \* self.parameters: absent, or the document it evaluates to
    supported_parameters, \* what _get_supported_parameters() returns
    stack_at_entry,       \* env.stack when _eval_parameters was called
    env_stack,            \* env.stack when it returned
    eval_parameters_result   \* the document it returned

stateTaskVars == <<raised_ex, failure_event, parameters, supported_parameters,
                   stack_at_entry, env_stack, eval_parameters_result>>

\* ---- IAMRoleProvider: one update or delete request and the IAM service
VARIABLES
    handler,         \* the method the request is handed to: "update", "delete"
    previous_state,  \* request.previous_state
    desired_state,   \* request.desired_state
    role_pc,         \* position in the handler, or how it ended
    to_detach,       \* attached policies the detach loop has still to visit
    to_delete,       \* inline policy names the delete loop has still to visit
    to_attach,       \* ManagedPolicyArns create has still to attach
    progress_event,  \* the ProgressEvent returned
    iam_roles,       \* IAM: names of the roles that exist
    iam_attached,    \* IAM: managed policies attached to the previous role
    iam_inline,      \* IAM: inline policies of the previous role
    iam_calls        \* every IAM call made, in order: [op, role, arg, ok]

roleVars == <<handler, previous_state, desired_state, role_pc, to_detach,
              to_delete, to_attach, progress_event, iam_roles, iam_attached,
              iam_inline, iam_calls>>

\* ---- a thread calling describe() and list: position and what it has built
VARIABLES
    obs_pc,
    describe_output,
    execution_list_item

obsVars == <<obs_pc, describe_output, execution_list_item>>

finalVars == <<name, role_arn, exec_arn, state_machine, start_date, input_data>>
execVars == <<exec_worker, exec_status, stop_date, output, error, cause>>
callVars == <<pc, stop_pc, stop_local>>
workerVars == <<program_state, env_inp, stop_signal, wpc, branches, exit_program_state>>
sinkVars == <<events, put_events_result>>
vars == <<execVars, callVars, sinkVars, workerVars>>
allVars == <<finalVars, vars, obsVars, taskVars, parVars, stateTaskVars, roleVars>>
\* What the actions of one part leave alone.
beyondExecution == <<finalVars, obsVars, taskVars, parVars, stateTaskVars, roleVars>>
beyondObserver == <<finalVars, vars, taskVars, parVars, stateTaskVars, roleVars>>
beyondTask == <<finalVars, vars, obsVars, parVars, stateTaskVars, roleVars>>
beyondParallel == <<finalVars, vars, obsVars, taskVars, stateTaskVars, roleVars>>
beyondStateTask == <<finalVars, vars, obsVars, taskVars, parVars, roleVars>>
beyondRole == <<finalVars, vars, obsVars, taskVars, parVars, stateTaskVars>>

ProgramState(kind, err, cse) == [kind |-> kind, error |-> err, cause |-> cse]
ProgramCreated == ProgramState("Created", None, None)
ProgramRunning == ProgramState("ProgramRunning", None, None)
ProgramEnded == ProgramState("ProgramEnded", None, None)
ProgramStopped == ProgramState("ProgramStopped", None, None)
ProgramError(err, cse) == ProgramState("ProgramError", err, cse)

\* Execution.__init__
ExecutionInit ==
    /\ name = NameArg
    /\ role_arn = RoleArnArg
    /\ exec_arn = ExecArnArg
    /\ state_machine = StateMachineArg
    /\ start_date = StartDateArg
    /\ input_data = InputDataArg
    /\ exec_worker = NoWorker
    /\ exec_status = None
    /\ stop_date = None
    /\ output = None
    /\ error = None
    /\ cause = None
    /\ pc = [t \in Callers |-> "idle"]
    /\ stop_pc = "idle"
    /\ stop_local = NoWorker
    /\ events = <<>>
    /\ put_events_result = None
    /\ program_state = [w \in Workers |-> ProgramCreated]
    /\ env_inp = [w \in Workers |-> InputDataArg]
    /\ stop_signal = [w \in Workers |-> FALSE]
    /\ wpc = [w \in Workers |-> "created"]
    /\ branches = [w \in Workers |-> 0]
    /\ exit_program_state = [w \in Workers |-> ProgramCreated]

\* ------------------------------------------------- status-change notification
\* The entry _publish_execution_status_change_event builds from the fields.
StatusChangeEntry ==
    [status |-> exec_status, stopDate |-> stop_date, output |-> output,
     error |-> error, cause |-> cause]

\* A publish that lets the sink's exception escape.
PublishRaisesUncaught(delivered) == ~delivered

\* put_events raising is caught and logged: the method never raises.
PublishRaises(delivered) == FALSE

\* _publish_execution_status_change_event: one put_events call, which the
\* sink accepts (delivered) or fails.
publish_execution_status_change_event(delivered) ==
    /\ events' = Append(events, StatusChangeEntry)
    /\ put_events_result' = IF delivered THEN "ok" ELSE "raised"

\* ------------------------------------------------------------ Execution.start
\* A start() call that skips the exec_worker check.
StartCheckUnguarded(t) ==
    /\ pc[t] = "idle"
    /\ pc' = [pc EXCEPT ![t] = "create_worker"]
    /\ UNCHANGED <<execVars, stop_pc, stop_local, sinkVars, workerVars>>
    /\ UNCHANGED beyondExecution

\* if self.exec_worker: raise InvalidName()
StartCheck(t) ==
    /\ pc[t] = "idle"
    /\ pc' = [pc EXCEPT ![t] =
                IF exec_worker # NoWorker THEN "InvalidName" ELSE "create_worker"]
    /\ UNCHANGED <<execVars, stop_pc, stop_local, sinkVars, workerVars>>
    /\ UNCHANGED beyondExecution

\* self.exec_worker = ExecutionWorker(...)
StartCreateWorker(t) ==
    /\ pc[t] = "create_worker"
    /\ exec_worker' = t
    /\ env_inp' = [env_inp EXCEPT ![t] = input_data]
    /\ pc' = [pc EXCEPT ![t] = "set_running"]
    /\ UNCHANGED <<exec_status, stop_date, output, error, cause,
                   stop_pc, stop_local, sinkVars, program_state, stop_signal,
                   wpc, branches, exit_program_state>>
    /\ UNCHANGED beyondExecution

\* self.exec_status = ExecutionStatus.RUNNING
StartSetRunning(t) ==
    /\ pc[t] = "set_running"
    /\ exec_status' = "RUNNING"
    /\ pc' = [pc EXCEPT ![t] = "publish"]
    /\ UNCHANGED <<exec_worker, stop_date, output, error, cause,
                   stop_pc, stop_local, sinkVars, workerVars>>
    /\ UNCHANGED beyondExecution

\* self._publish_execution_status_change_event()
StartPublish(t) ==
    /\ pc[t] = "publish"
    /\ \E delivered \in BOOLEAN :
         /\ publish_execution_status_change_event(delivered)
         /\ pc' = [pc EXCEPT ![t] =
                     IF PublishRaises(delivered) THEN "PublishError" ELSE "start_worker"]
    /\ UNCHANGED <<execVars, stop_pc, stop_local, workerVars>>
    /\ UNCHANGED beyondExecution

\* ExecutionWorker.start(): Created -> Running; fails if already started.
WorkerCanStart(w) == program_state[w].kind = "Created"

\* self.exec_worker.start(): the field is read again, so the worker started
\* is the one the Execution refers to now.
StartWorker(t) ==
    /\ pc[t] = "start_worker"
    /\ LET w == exec_worker IN
         IF WorkerCanStart(w)
         THEN /\ program_state' = [program_state EXCEPT ![w] = ProgramRunning]
              /\ wpc' = [wpc EXCEPT ![w] = "eval"]
              /\ pc' = [pc EXCEPT ![t] = "returned"]
         ELSE /\ pc' = [pc EXCEPT ![t] = "WorkerAlreadyStarted"]
              /\ UNCHANGED <<program_state, wpc>>
    /\ UNCHANGED <<execVars, stop_pc, stop_local, sinkVars,
                   env_inp, stop_signal, branches, exit_program_state>>
    /\ UNCHANGED beyondExecution

start(t) ==
    \/ StartCheck(t)
    \/ StartCreateWorker(t)
    \/ StartSetRunning(t)
    \/ StartPublish(t)
    \/ StartWorker(t)

\* ------------------------------------------------------------- Execution.stop
\* exec_worker = self.exec_worker; if not exec_worker: raise RuntimeError
StopCheck ==
    /\ stop_pc \in {"idle", "RuntimeError", "returned"}
    /\ stop_local' = exec_worker
    /\ stop_pc' = IF exec_worker = NoWorker THEN "RuntimeError" ELSE "stop_worker"
    /\ UNCHANGED <<execVars, pc, sinkVars, workerVars>>
    /\ UNCHANGED beyondExecution

\* ExecutionWorker.stop(): sets the cancellation signal on the root
\* Environment of a running worker; a worker that is not running is left
\* as it is (terminal Program States are final).
WorkerStop(w) ==
    stop_signal' = [stop_signal EXCEPT ![w] =
                      stop_signal[w] \/ program_state[w].kind = "ProgramRunning"]

\* exec_worker.stop(stop_date=stop_date, cause=cause, error=error)
StopWorker ==
    /\ stop_pc = "stop_worker"
    /\ WorkerStop(stop_local)
    /\ stop_pc' = "returned"
    /\ UNCHANGED <<execVars, pc, stop_local, sinkVars,
                   program_state, env_inp, wpc, branches, exit_program_state>>
    /\ UNCHANGED beyondExecution

stop ==
    \/ StopCheck
    \/ StopWorker

\* ------------------------------------------------------- the Execution Worker
\* The worker's thread of control, between two state evaluations.  It ends
\* on a terminal Program State and then invokes the completion callback.
Finish(w, state, inp) ==
    /\ program_state' = [program_state EXCEPT ![w] = state]
    /\ env_inp' = [env_inp EXCEPT ![w] = inp]
    /\ wpc' = [wpc EXCEPT ![w] = "terminated"]

\* A state evaluates: a Wait suspends, a Parallel/Map fans out, the last
\* state ends the program, an uncaught FailureEvent ends it in error.
WorkerEval(w) ==
    /\ wpc[w] = "eval"
    /\ ~stop_signal[w]
    /\ \/ /\ wpc' = [wpc EXCEPT ![w] = "wait"]
          /\ UNCHANGED <<program_state, env_inp, branches>>
       \/ /\ \E n \in 1..MaxBranches : branches' = [branches EXCEPT ![w] = n]
          /\ wpc' = [wpc EXCEPT ![w] = "join"]
          /\ UNCHANGED <<program_state, env_inp>>
       \/ /\ \E doc \in Docs : Finish(w, ProgramEnded, doc)
          /\ UNCHANGED branches
       \/ /\ \E f \in Failures :
               Finish(w, ProgramError(f[1], f[2]), env_inp[w])
          /\ UNCHANGED branches
    /\ UNCHANGED <<execVars, callVars, sinkVars, stop_signal, exit_program_state>>
    /\ UNCHANGED beyondExecution

\* The stop signal is observed between evaluations.
WorkerObserveStop(w) ==
    /\ wpc[w] = "eval"
    /\ stop_signal[w]
    /\ Finish(w, ProgramStopped, env_inp[w])
    /\ UNCHANGED <<execVars, callVars, sinkVars, stop_signal, branches,
                   exit_program_state>>
    /\ UNCHANGED beyondExecution

\* A Wait that sleeps to completion without a cancellation check.
WaitElapsedUnchecked(w) ==
    /\ wpc[w] = "wait"
    /\ wpc' = [wpc EXCEPT ![w] = "eval"]
    /\ UNCHANGED <<execVars, callVars, sinkVars, program_state, env_inp,
                   stop_signal, branches, exit_program_state>>
    /\ UNCHANGED beyondExecution

\* Wait: the duration elapses and the next state is entered.
WaitElapsed(w) ==
    /\ wpc[w] = "wait"
    /\ ~stop_signal[w]
    /\ wpc' = [wpc EXCEPT ![w] = "eval"]
    /\ UNCHANGED <<execVars, callVars, sinkVars, program_state, env_inp,
                   stop_signal, branches, exit_program_state>>
    /\ UNCHANGED beyondExecution

\* Wait: the cancellation check interrupts the wait.
WaitInterrupted(w) ==
    /\ wpc[w] = "wait"
    /\ stop_signal[w]
    /\ Finish(w, ProgramStopped, env_inp[w])
    /\ UNCHANGED <<execVars, callVars, sinkVars, stop_signal, branches,
                   exit_program_state>>
    /\ UNCHANGED beyondExecution

\* A child Environment finishes, or observes its parent's cancellation
\* signal and unwinds.
BranchDone(w) ==
    /\ wpc[w] = "join"
    /\ branches[w] > 0
    /\ branches' = [branches EXCEPT ![w] = branches[w] - 1]
    /\ UNCHANGED <<execVars, callVars, sinkVars, program_state, env_inp,
                   stop_signal, wpc, exit_program_state>>
    /\ UNCHANGED beyondExecution

\* The parent waits for all branches, then continues or unwinds.
Join(w) ==
    /\ wpc[w] = "join"
    /\ branches[w] = 0
    /\ IF stop_signal[w]
       THEN Finish(w, ProgramStopped, env_inp[w])
       ELSE /\ wpc' = [wpc EXCEPT ![w] = "eval"]
            /\ UNCHANGED <<program_state, env_inp>>
    /\ UNCHANGED <<execVars, callVars, sinkVars, stop_signal, branches,
                   exit_program_state>>
    /\ UNCHANGED beyondExecution

Worker(w) ==
    \/ WorkerEval(w)
    \/ WorkerObserveStop(w)
    \/ WaitElapsed(w)
    \/ WaitInterrupted(w)
    \/ BranchDone(w)
    \/ Join(w)

\* --------------------------------- Execution.BaseExecutionWorkerComm.terminated
\* exit_program_state = self.execution.exec_worker.env.program_state()
TerminatedRead(w) ==
    /\ wpc[w] = "terminated"
    /\ exit_program_state' =
         [exit_program_state EXCEPT ![w] = program_state[exec_worker]]
    /\ wpc' = [wpc EXCEPT ![w] = "set_stop_date"]
    /\ UNCHANGED <<execVars, callVars, sinkVars, program_state, env_inp,
                   stop_signal, branches>>
    /\ UNCHANGED beyondExecution

\* A callback that stamps the start date instead of the stop date.
TerminatedStampsStartDate(w) ==
    /\ wpc[w] = "set_stop_date"
    /\ start_date' = Now
    /\ wpc' = [wpc EXCEPT ![w] = "set_status"]
    /\ UNCHANGED <<execVars, callVars, sinkVars, program_state, env_inp,
                   stop_signal, branches, exit_program_state>>
    /\ UNCHANGED <<name, role_arn, exec_arn, state_machine, input_data,
                   obsVars, taskVars, parVars, stateTaskVars, roleVars>>

\* self.execution.stop_date = datetime.datetime.now()
TerminatedStopDate(w) ==
    /\ wpc[w] = "set_stop_date"
    /\ stop_date' = Now
    /\ wpc' = [wpc EXCEPT ![w] = "set_status"]
    /\ UNCHANGED <<exec_worker, exec_status, output, error, cause, callVars,
                   sinkVars, program_state, env_inp, stop_signal, branches,
                   exit_program_state>>
    /\ UNCHANGED beyondExecution

\* The status terminated() assigns for an exit Program State.
ExitStatus(state) ==
    CASE state.kind = "ProgramEnded" -> "SUCCEEDED"
      [] state.kind = "ProgramStopped" -> "ABORTED"
      [] state.kind = "ProgramError" -> "FAILED"
      [] OTHER -> None

\* An isinstance chain whose else branch does not raise.
TerminatedStatusFallsThrough(w) ==
    /\ wpc[w] = "set_status"
    /\ LET kind == exit_program_state[w].kind IN
         IF kind \in TerminalKinds
         THEN /\ exec_status' = ExitStatus(exit_program_state[w])
              /\ wpc' = [wpc EXCEPT ![w] =
                           CASE kind = "ProgramEnded" -> "set_output"
                             [] kind = "ProgramStopped" -> "publish"
                             [] OTHER -> "set_error"]
         ELSE /\ wpc' = [wpc EXCEPT ![w] = "publish"]
              /\ UNCHANGED exec_status
    /\ UNCHANGED <<exec_worker, stop_date, output, error, cause, callVars,
                   sinkVars, program_state, env_inp, stop_signal, branches,
                   exit_program_state>>
    /\ UNCHANGED beyondExecution

\* The isinstance chain: the status is assigned, or RuntimeWarning is raised.
TerminatedStatus(w) ==
    /\ wpc[w] = "set_status"
    /\ LET kind == exit_program_state[w].kind IN
         IF kind \in TerminalKinds
         THEN /\ exec_status' = ExitStatus(exit_program_state[w])
              /\ wpc' = [wpc EXCEPT ![w] =
                           CASE kind = "ProgramEnded" -> "set_output"
                             [] kind = "ProgramStopped" -> "publish"
                             [] OTHER -> "set_error"]
         ELSE /\ wpc' = [wpc EXCEPT ![w] = "RuntimeWarning"]
              /\ UNCHANGED exec_status
    /\ UNCHANGED <<exec_worker, stop_date, output, error, cause, callVars,
                   sinkVars, program_state, env_inp, stop_signal, branches,
                   exit_program_state>>
    /\ UNCHANGED beyondExecution

\* self.execution.output = to_json_str(self.execution.exec_worker.env.inp, ...)
TerminatedOutput(w) ==
    /\ wpc[w] = "set_output"
    /\ output' = to_json_str(env_inp[exec_worker])
    /\ wpc' = [wpc EXCEPT ![w] = "publish"]
    /\ UNCHANGED <<exec_worker, exec_status, stop_date, error, cause, callVars,
                   sinkVars, program_state, env_inp, stop_signal, branches,
                   exit_program_state>>
    /\ UNCHANGED beyondExecution

\* self.execution.error = exit_program_state.error["error"]
TerminatedError(w) ==
    /\ wpc[w] = "set_error"
    /\ error' = exit_program_state[w].error
    /\ wpc' = [wpc EXCEPT ![w] = "set_cause"]
    /\ UNCHANGED <<exec_worker, exec_status, stop_date, output, cause, callVars,
                   sinkVars, program_state, env_inp, stop_signal, branches,
                   exit_program_state>>
    /\ UNCHANGED beyondExecution

\* self.execution.cause = exit_program_state.error["cause"]
TerminatedCause(w) ==
    /\ wpc[w] = "set_cause"
    /\ cause' = exit_program_state[w].cause
    /\ wpc' = [wpc EXCEPT ![w] = "publish"]
    /\ UNCHANGED <<exec_worker, exec_status, stop_date, output, error, callVars,
                   sinkVars, program_state, env_inp, stop_signal, branches,
                   exit_program_state>>
    /\ UNCHANGED beyondExecution

\* self.execution._publish_execution_status_change_event()
TerminatedPublish(w) ==
    /\ wpc[w] = "publish"
    /\ \E delivered \in BOOLEAN :
         /\ publish_execution_status_change_event(delivered)
         /\ wpc' = [wpc EXCEPT ![w] =
                      IF PublishRaises(delivered) THEN "PublishError" ELSE "returned"]
    /\ UNCHANGED <<execVars, callVars, program_state, env_inp, stop_signal,
                   branches, exit_program_state>>
    /\ UNCHANGED beyondExecution

terminated(w) ==
    \/ TerminatedRead(w)
    \/ TerminatedStopDate(w)
    \/ TerminatedStatus(w)
    \/ TerminatedOutput(w)
    \/ TerminatedError(w)
    \/ TerminatedCause(w)
    \/ TerminatedPublish(w)

\* ---------------------------------------------------------- Execution.describe
\* to_describe_output: output only with status SUCCEEDED, error and cause
\* only when set.
to_describe_output ==
    [executionArn |-> exec_arn,
     stateMachineArn |-> state_machine,
     name |-> name,
     status |-> exec_status,
     startDate |-> start_date,
     stopDate |-> stop_date,
     input |-> to_json_str(input_data),
     output |-> IF exec_status = "SUCCEEDED" THEN output ELSE "absent",
     error |-> IF error # None THEN error ELSE "absent",
     cause |-> IF cause # None THEN cause ELSE "absent"]

\* The same methods, read by read, on a thread of their own.
NotBuilt == [status |-> "absent", stopDate |-> "absent", output |-> "absent",
             error |-> "absent", cause |-> "absent"]

ObserverIdle ==
    /\ obs_pc = "idle"
    /\ describe_output = NotBuilt
    /\ execution_list_item = [status |-> "absent", stopDate |-> "absent"]

ObserverReady == obs_pc \in {"idle", "described", "listed"}

\* status=self.exec_status
DescribeStatus ==
    /\ ObserverReady
    /\ describe_output' = [NotBuilt EXCEPT !.status = exec_status]
    /\ obs_pc' = "describe_stop_date"
    /\ UNCHANGED execution_list_item
    /\ UNCHANGED beyondObserver

\* stopDate=self.stop_date
DescribeStopDate ==
    /\ obs_pc = "describe_stop_date"
    /\ describe_output' = [describe_output EXCEPT !.stopDate = stop_date]
    /\ obs_pc' = "describe_output"
    /\ UNCHANGED execution_list_item
    /\ UNCHANGED beyondObserver

\* if describe_output["status"] == SUCCEEDED: describe_output["output"] = self.output
DescribeOutput ==
    /\ obs_pc = "describe_output"
    /\ describe_output' =
         IF describe_output.status = "SUCCEEDED"
         THEN [describe_output EXCEPT !.output = output]
         ELSE describe_output
    /\ obs_pc' = "describe_error"
    /\ UNCHANGED execution_list_item
    /\ UNCHANGED beyondObserver

\* if self.error is not None: describe_output["error"] = self.error
DescribeError ==
    /\ obs_pc = "describe_error"
    /\ describe_output' =
         IF error # None THEN [describe_output EXCEPT !.error = error]
         ELSE describe_output
    /\ obs_pc' = "describe_cause"
    /\ UNCHANGED execution_list_item
    /\ UNCHANGED beyondObserver

\* if self.cause is not None: describe_output["cause"] = self.cause; return
DescribeCause ==
    /\ obs_pc = "describe_cause"
    /\ describe_output' =
         IF cause # None THEN [describe_output EXCEPT !.cause = cause]
         ELSE describe_output
    /\ obs_pc' = "described"
    /\ UNCHANGED execution_list_item
    /\ UNCHANGED beyondObserver

\* to_execution_list_item: status=self.exec_status
ListStatus ==
    /\ ObserverReady
    /\ execution_list_item' = [status |-> exec_status, stopDate |-> "absent"]
    /\ obs_pc' = "list_stop_date"
    /\ UNCHANGED describe_output
    /\ UNCHANGED beyondObserver

\* stopDate=self.stop_date; return
ListStopDate ==
    /\ obs_pc = "list_stop_date"
    /\ execution_list_item' = [execution_list_item EXCEPT !.stopDate = stop_date]
    /\ obs_pc' = "listed"
    /\ UNCHANGED describe_output
    /\ UNCHANGED beyondObserver

Observer ==
    \/ DescribeStatus
    \/ DescribeStopDate
    \/ DescribeOutput
    \/ DescribeError
    \/ DescribeCause
    \/ ListStatus
    \/ ListStopDate

\* ------------------------------------------------- Task state, Retry resolution
TaskErrorNames == {"States.TaskFailed", "States.Timeout", "Custom.Error"}
ErrorEqualsSets == {{"States.ALL"}, {"States.TaskFailed"}, {"States.Timeout", "Custom.Error"}}

\* An exact-name match wins; States.ALL matches anything.
RetrierMatches(r, err) == err \in r.error_equals \/ r.error_equals = {"States.ALL"}

\* base^exp for the backoff.
RECURSIVE Pow(_, _)
Pow(base, exp) == IF exp = 0 THEN 1 ELSE base * Pow(base, exp - 1)

\* delay = intervalSeconds * backoffRate^(attempt-1)
BackoffDelay(r, attempt) == r.interval_seconds * Pow(r.backoff_rate, attempt - 1)

\* ------------------------------------------------------ StateTask._from_error
\* The exceptions an evaluation can raise: a FailureEventException carries
\* the FailureEvent it was raised with.
NoFailureEvent == [error_name |-> None, event_type |-> None, error |-> None]
TaskFailedEvent(err) == [error_name |-> err, event_type |-> "TaskFailed", error |-> err]
Exceptions ==
    [type : {"TimeoutError", "KeyError", "Exception"}, failure_event : {NoFailureEvent}]
    \cup [type : {"FailureEventException"},
          failure_event : {TaskFailedEvent("States.TaskFailed"), TaskFailedEvent("Custom.Error")}]

\* _get_timed_out_failure_event
get_timed_out_failure_event ==
    [error_name |-> "States.Timeout", event_type |-> "TaskTimedOut",
     error |-> "States.Timeout"]

\* ExecutionState._from_error: the generic mapping.
ExecutionState_from_error(ex) ==
    IF ex.type = "FailureEventException"
    THEN ex.failure_event
    ELSE TaskFailedEvent("States.TaskFailed")

\* A mapping that reports every exception as a timeout.
from_error_all_timeouts(ex) == get_timed_out_failure_event

\* isinstance(ex, TimeoutError) selects the timeout event; the rest is the
\* superclass's.
from_error(ex) ==
    IF ex.type = "TimeoutError"
    THEN get_timed_out_failure_event
    ELSE ExecutionState_from_error(ex)

\* -------------------------------------------------- StateTask._eval_parameters
ParameterKeys == {"FunctionName", "Extra"}
ParameterValues == {"v1", "v2"}
EmptyDocument == [k \in {} |-> "v1"]
\* The documents a Parameters component can evaluate to.
ParameterDocuments ==
    UNION {[K -> ParameterValues] : K \in SUBSET ParameterKeys}
\* self.parameters: None, or a component with the document it evaluates to.
ParametersChoices ==
    {[none |-> TRUE, doc |-> EmptyDocument]}
    \cup [none : {FALSE}, doc : ParameterDocuments]
\* _get_supported_parameters(): None here, a set of names in subclasses.
SupportedChoices ==
    {[none |-> TRUE, keys |-> {}]}
    \cup [none : {FALSE}, keys : SUBSET ParameterKeys]
\* The value stacks _eval_parameters can be entered with.
Stacks ==
    UNION {[1..n -> {[FunctionName |-> "v1"]}] : n \in 0..MaxStackDepth}

\* Parameters.eval: pushes the evaluated document.
parameters_eval(stack, doc) == Append(stack, doc)

\* env.stack.pop()
stack_pop(stack) ==
    [value |-> stack[Len(stack)], stack |-> SubSeq(stack, 1, Len(stack) - 1)]

\* A filter that drops the supported names instead.
drop_supported(doc, supported) ==
    IF ~supported.none /\ supported.keys # {}
    THEN [k \in DOMAIN doc \ supported.keys |-> doc[k]]
    ELSE doc

\* if supported_parameters: every name outside the set is popped.
drop_unsupported(doc, supported) ==
    IF ~supported.none /\ supported.keys # {}
    THEN [k \in DOMAIN doc \cap supported.keys |-> doc[k]]
    ELSE doc

StateTaskIdle ==
    /\ raised_ex = [type |-> None, failure_event |-> NoFailureEvent]
    /\ failure_event = NoFailureEvent
    /\ parameters = [none |-> TRUE, doc |-> EmptyDocument]
    /\ supported_parameters = [none |-> TRUE, keys |-> {}]
    /\ stack_at_entry = <<>>
    /\ env_stack = <<>>
    /\ eval_parameters_result = EmptyDocument

\* _from_error(env, ex)
FromError ==
    /\ \E ex \in Exceptions :
         /\ raised_ex' = ex
         /\ failure_event' = from_error(ex)
    /\ UNCHANGED <<parameters, supported_parameters, stack_at_entry, env_stack,
                   eval_parameters_result>>
    /\ UNCHANGED beyondStateTask

\* _eval_parameters(env)
EvalParameters ==
    /\ \E p \in ParametersChoices, sp \in SupportedChoices, st \in Stacks :
         /\ parameters' = p
         /\ supported_parameters' = sp
         /\ stack_at_entry' = st
         /\ LET popped == stack_pop(parameters_eval(st, p.doc)) IN
              /\ env_stack' = IF p.none THEN st ELSE popped.stack
              /\ eval_parameters_result' =
                   drop_unsupported(IF p.none THEN EmptyDocument ELSE popped.value, sp)
    /\ UNCHANGED <<raised_ex, failure_event>>
    /\ UNCHANGED beyondStateTask

\* ------------------------------------------------------------ Catch resolution
\* The Task's input document, its result, and the absence of a document.
task_input == [a |-> "in"]
TaskResult == [a |-> "in", result |-> "ok"]
NoDoc == [absent |-> TRUE]

\* The FailureEvent as a structured error document.
FailureDocument(err) == [Error |-> err, Cause |-> "invocation failed"]

ResultPaths == {"absent", "$.error", "$.a"}
NoCatcher == [error_equals |-> {}, next |-> None, result_path |-> "absent"]
Catchers ==
    {NoCatcher} \cup
    [error_equals : {{"States.ALL"}, {"States.TaskFailed"}},
     next : {"Fallback"}, result_path : ResultPaths]

\* The field a ResultPath names.
ResultPathField(path) == IF path = "$.error" THEN "error" ELSE "a"

\* The result merged into the input document at the ResultPath; an absent
\* ResultPath replaces the root.
ApplyResultPath(doc, result, path) ==
    IF path = "absent"
    THEN result
    ELSE [k \in DOMAIN doc \cup {ResultPathField(path)} |->
            IF k = ResultPathField(path) THEN result ELSE doc[k]]

\* A catcher that takes States.ALL for an ordinary error name.
CatcherMatchesExactOnly(c, err) == err \in c.error_equals

\* Catchers use the retriers' matching rule.
CatcherMatches(c, err) == err \in c.error_equals \/ c.error_equals = {"States.ALL"}

\* A retrier that allows one attempt too many.
RetrierMayRetryOffByOne(r, err, count) ==
    RetrierMatches(r, err) /\ count <= r.max_attempts

\* The retrier re-runs the state while its counter has not reached maxAttempts.
RetrierMayRetry(r, err, count) == RetrierMatches(r, err) /\ count < r.max_attempts

\* ------------------------------------------------------- StateTask._eval_body
\* What a service integration stores as the Task entry of the context object.
TaskContext == "Token"

\* _eval_body: the superclass's body runs first; the Task entry is reset on
\* the line after it, which a raising body never reaches.
eval_body_exit(raised, task_entry) == IF raised THEN task_entry ELSE None

TaskIdle ==
    /\ context_task = None
    /\ retrier = [error_equals |-> {"States.ALL"}, max_attempts |-> 0,
                  interval_seconds |-> 0, backoff_rate |-> 1]
    /\ fail_plan = 0
    /\ task_error = "States.TaskFailed"
    /\ attempts = 0
    /\ invocations = 0
    /\ delay = 0
    /\ history = <<>>
    /\ entries = 0
    /\ task_pc = "idle"
    /\ catcher = NoCatcher
    /\ task_output = NoDoc
    /\ next_state = None

\* A fresh entry into the Task state: the attempt counter starts at zero.
TaskEnter ==
    /\ task_pc \in {"idle", "succeeded", "caught", "failed"}
    /\ entries < MaxEntries
    /\ entries' = entries + 1
    /\ \E ee \in ErrorEqualsSets, n \in 0..MaxAttemptsBound, i \in 0..1, b \in 1..2 :
         retrier' = [error_equals |-> ee, max_attempts |-> n,
                     interval_seconds |-> i, backoff_rate |-> b]
    /\ fail_plan' \in 0..MaxFailures
    /\ task_error' \in TaskErrorNames
    /\ attempts' = 0
    /\ invocations' = 0
    /\ delay' = 0
    /\ history' = <<"TaskStateEntered">>
    /\ catcher' \in Catchers
    /\ task_output' = NoDoc
    /\ next_state' = None
    /\ task_pc' = "invoke"
    /\ UNCHANGED context_task
    /\ UNCHANGED beyondTask

\* invokeResource: one blocking call per attempt.
TaskInvoke ==
    /\ task_pc = "invoke"
    /\ invocations' = invocations + 1
    /\ IF invocations + 1 <= fail_plan
       THEN /\ history' = Append(history, "TaskFailed")
            /\ task_pc' = "failure"
            /\ context_task' \in {context_task, TaskContext}
            /\ UNCHANGED <<task_output, next_state>>
       ELSE /\ history' = Append(history, "TaskSucceeded")
            /\ task_pc' = "succeeded"
            /\ task_output' = TaskResult
            /\ next_state' = "Next"
            /\ context_task' = eval_body_exit(FALSE, TaskContext)
    /\ UNCHANGED <<retrier, fail_plan, task_error, attempts, delay, entries,
                   catcher>>
    /\ UNCHANGED beyondTask

\* The FailureEvent is matched against the retrier: the counter is
\* incremented, the delay computed, and the state's effect is run again.
TaskRetry ==
    /\ task_pc = "failure"
    /\ RetrierMayRetry(retrier, task_error, attempts)
    /\ attempts' = attempts + 1
    /\ delay' = BackoffDelay(retrier, attempts + 1)
    /\ history' = Append(history, "Retry")
    /\ task_pc' = "invoke"
    /\ UNCHANGED <<retrier, fail_plan, task_error, invocations, entries,
                   catcher, task_output, next_state, context_task>>
    /\ UNCHANGED beyondTask

\* No retrier matches or its attempts are exhausted, and the catcher
\* matches: control goes to its Next state with the failure document merged
\* at its ResultPath.
TaskCatch ==
    /\ task_pc = "failure"
    /\ ~RetrierMayRetry(retrier, task_error, attempts)
    /\ CatcherMatches(catcher, task_error)
    /\ task_output' =
         ApplyResultPath(task_input, FailureDocument(task_error), catcher.result_path)
    /\ next_state' = catcher.next
    /\ history' = Append(history, "TaskStateExited")
    /\ task_pc' = "caught"
    /\ context_task' = eval_body_exit(FALSE, context_task)
    /\ UNCHANGED <<retrier, fail_plan, task_error, attempts, invocations, delay,
                   entries, catcher>>
    /\ UNCHANGED beyondTask

\* No retrier retries and no catcher matches: the FailureEvent propagates
\* and ends the execution in Errored.
TaskFail ==
    /\ task_pc = "failure"
    /\ ~RetrierMayRetry(retrier, task_error, attempts)
    /\ ~CatcherMatches(catcher, task_error)
    /\ history' = Append(history, "TaskStateFailed")
    /\ task_pc' = "failed"
    /\ context_task' = eval_body_exit(TRUE, context_task)
    /\ UNCHANGED <<retrier, fail_plan, task_error, attempts, invocations, delay,
                   entries, catcher, task_output, next_state>>
    /\ UNCHANGED beyondTask

\* ------------------------------------------------------------ Parallel state
ParBranches == 1..MaxBranches
\* The Parallel state itself appends with branch number 0.
ParentUnit == 0
BranchEnded(b) == branch_pc[b] \in {"succeeded", "failed", "stopped"}

ParallelIdle ==
    /\ par_pc = "idle"
    /\ par_outcome = None
    /\ par_program_state = "ProgramRunning"
    /\ par_output = NoDoc
    /\ branch_pc = [b \in ParBranches |-> "idle"]
    /\ branch_plan = [b \in ParBranches |-> "succeed"]
    /\ branch_left = [b \in ParBranches |-> 0]
    /\ branch_signal = [b \in ParBranches |-> FALSE]
    /\ event_history = <<>>
    /\ event_id_counter = 0
    /\ append_lock = 0
    /\ pending_id = [b \in ParBranches |-> 0]

\* An append that does not take the lock.
LockFreeUnguarded(b) == TRUE

\* The single logical append lock.
LockFree(b) == append_lock = 0

\* The Parallel state is entered: its entry event is appended and one child
\* Environment per branch starts on its own concurrent unit.
ParallelEnter ==
    /\ par_pc = "idle"
    /\ event_id_counter' = event_id_counter + 1
    /\ event_history' =
         Append(event_history, [id |-> event_id_counter + 1, branch |-> ParentUnit])
    /\ branch_plan' \in [ParBranches -> {"succeed", "fail"}]
    /\ branch_left' \in [ParBranches -> 0..MaxBranchEvents]
    /\ branch_pc' = [b \in ParBranches |-> "running"]
    /\ par_pc' = "join"
    /\ UNCHANGED <<par_outcome, par_program_state, par_output, branch_signal,
                   append_lock, pending_id>>
    /\ UNCHANGED beyondParallel

\* A branch starts an append: it takes the lock and draws the next identifier.
\* Evaluating the next state is a point where cancellation is observed, so
\* a signalled branch starts none.
BranchBeginAppend(b) ==
    /\ branch_pc[b] = "running"
    /\ branch_left[b] > 0
    /\ ~branch_signal[b]
    /\ LockFree(b)
    /\ append_lock' = b
    /\ pending_id' = [pending_id EXCEPT ![b] = event_id_counter + 1]
    /\ branch_pc' = [branch_pc EXCEPT ![b] = "appending"]
    /\ UNCHANGED <<par_pc, par_outcome, par_program_state, par_output,
                   branch_plan, branch_left, branch_signal, event_history,
                   event_id_counter>>
    /\ UNCHANGED beyondParallel

\* The append completes: counter advanced, event stored, lock released.
BranchCommitAppend(b) ==
    /\ branch_pc[b] = "appending"
    /\ event_id_counter' = pending_id[b]
    /\ event_history' = Append(event_history, [id |-> pending_id[b], branch |-> b])
    /\ append_lock' = IF append_lock = b THEN 0 ELSE append_lock
    /\ pending_id' = [pending_id EXCEPT ![b] = 0]
    /\ branch_left' = [branch_left EXCEPT ![b] = @ - 1]
    /\ branch_pc' = [branch_pc EXCEPT ![b] = "running"]
    /\ UNCHANGED <<par_pc, par_outcome, par_program_state, par_output,
                   branch_plan, branch_signal>>
    /\ UNCHANGED beyondParallel

\* A branch's program reaches its end state.
BranchSucceed(b) ==
    /\ branch_pc[b] = "running"
    /\ branch_left[b] = 0
    /\ branch_plan[b] = "succeed"
    /\ branch_pc' = [branch_pc EXCEPT ![b] = "succeeded"]
    /\ UNCHANGED <<par_pc, par_outcome, par_program_state, par_output,
                   branch_plan, branch_left, branch_signal, event_history,
                   event_id_counter, append_lock, pending_id>>
    /\ UNCHANGED beyondParallel

\* A branch fails: the parent's outcome is marked failed and cancellation is
\* signalled to the sibling branches.
BranchFail(b) ==
    /\ branch_pc[b] = "running"
    /\ branch_left[b] = 0
    /\ branch_plan[b] = "fail"
    /\ branch_pc' = [branch_pc EXCEPT ![b] = "failed"]
    /\ par_outcome' = "failed"
    /\ branch_signal' = [s \in ParBranches |-> s # b \/ branch_signal[s]]
    /\ UNCHANGED <<par_pc, par_program_state, par_output, branch_plan,
                   branch_left, event_history, event_id_counter, append_lock,
                   pending_id>>
    /\ UNCHANGED beyondParallel

\* A running branch observes the cancellation signal and unwinds.
BranchObserveCancel(b) ==
    /\ branch_pc[b] = "running"
    /\ branch_signal[b]
    /\ branch_pc' = [branch_pc EXCEPT ![b] = "stopped"]
    /\ UNCHANGED <<par_pc, par_outcome, par_program_state, par_output,
                   branch_plan, branch_left, branch_signal, event_history,
                   event_id_counter, append_lock, pending_id>>
    /\ UNCHANGED beyondParallel

\* A join that finalizes at the first failure.
JoinReadyOnFirstFailure == par_outcome = "failed" \/ \A b \in ParBranches : BranchEnded(b)

\* The parent waits for all branches.
JoinReady == \A b \in ParBranches : BranchEnded(b)

\* The Parallel state finalizes: failed without an output, or with the
\* ordered list of the branches' outputs.
ParallelJoin ==
    /\ par_pc = "join"
    /\ JoinReady
    /\ event_id_counter' = event_id_counter + 1
    /\ event_history' =
         Append(event_history, [id |-> event_id_counter + 1, branch |-> ParentUnit])
    /\ IF par_outcome = "failed"
       THEN /\ par_program_state' = "ProgramError"
            /\ par_output' = NoDoc
       ELSE /\ par_program_state' = "ProgramRunning"
            /\ par_output' = [b \in ParBranches |-> "doc_out"]
    /\ par_pc' = "finalized"
    /\ UNCHANGED <<par_outcome, branch_pc, branch_plan, branch_left,
                   branch_signal, append_lock, pending_id>>
    /\ UNCHANGED beyondParallel

\* ------------------------------------------------------------ IAMRoleProvider
\* A property of a resource model: absent, or present with a value.
Unset(placeholder) == [set |-> FALSE, value |-> placeholder]
Set(v) == [set |-> TRUE, value |-> v]
\* dict.get(key, default)
Get(prop, default) == IF prop.set THEN prop.value ELSE default
\* Python truthiness of dict.get(key): absent and empty values are false.
Truthy(prop, empty) == prop.set /\ prop.value # empty

\* Managed policies and inline policies are numbered.
PolicyIds == 1..MaxPolicies
\* Lists of managed policy ARNs, without repetition.
ArnLists ==
    {l \in UNION {[1..n -> PolicyIds] : n \in 0..MaxPolicies} :
        \A i, j \in DOMAIN l : i # j => l[i] # l[j]}

GeneratedName == "stack-role-generated"
RoleNames == {"role-a", "role-b"}
PolicyDocuments == {"doc1", "doc2"}

\* previous_state: the model create returned, so RoleName is present.
PreviousStates ==
    [RoleName : {Set("role-a")},
     AssumeRolePolicyDocument : {Unset(""), Set("doc1")},
     ManagedPolicyArns : {Unset(<<>>)} \cup {Set(l) : l \in {m \in ArnLists : m = <<>> \/ m[1] = 1}}]
DesiredStates ==
    [RoleName : {Unset(""), Set("")} \cup {Set(n) : n \in RoleNames},
     AssumeRolePolicyDocument : {Unset(""), Set("")} \cup {Set(d) : d \in PolicyDocuments},
     ManagedPolicyArns : {Unset(<<>>)} \cup {Set(l) : l \in ArnLists},
     Policies : {Unset(<<>>), Set(<<"inline">>)}]

\* A name comparison that takes an absent desired name for a change.
name_changed_when_absent(props, states) ==
    Get(props.RoleName, "") # states.RoleName.value

\* name_changed = new_role_name and new_role_name != _states["RoleName"]
name_changed(props, states) ==
    Truthy(props.RoleName, "") /\ props.RoleName.value # states.RoleName.value

\* policy_changed = props_policy and
\*     props_policy != _states.get("AssumeRolePolicyDocument", "")
policy_changed(props, states) ==
    /\ Truthy(props.AssumeRolePolicyDocument, "")
    /\ props.AssumeRolePolicyDocument.value # Get(states.AssumeRolePolicyDocument, "")

\* props.get("ManagedPolicyArns", []) != _states.get("ManagedPolicyArns", [])
managed_policy_arns_changed(props, states) ==
    Get(props.ManagedPolicyArns, <<>>) # Get(states.ManagedPolicyArns, <<>>)

\* One IAM call as it is recorded.
IamCall(op, role, arg, ok) == [op |-> op, role |-> role, arg |-> arg, ok |-> ok]
NoArg == 0

\* ProgressEvent(status=OperationStatus.SUCCESS, resource_model=...)
NoProgressEvent == [status |-> None, resource_model |-> [k \in {} |-> None]]
Success(model) == [status |-> "SUCCESS", resource_model |-> model]
EmptyModel == [k \in {} |-> None]

\* The states of a request whose handler does not read them.
NoPreviousState == CHOOSE st \in PreviousStates : TRUE
NoDesiredState == CHOOSE st \in DesiredStates : TRUE

RoleIdle ==
    /\ handler = None
    /\ previous_state = NoPreviousState
    /\ desired_state = NoDesiredState
    /\ role_pc = "idle"
    /\ to_detach = {}
    /\ to_delete = {}
    /\ to_attach = <<>>
    /\ progress_event = NoProgressEvent
    /\ iam_roles = {}
    /\ iam_attached = {}
    /\ iam_inline = {}
    /\ iam_calls = <<>>

\* A request arrives: the role of the previous state exists in IAM with the
\* managed policies of that state attached and some inline policies. delete
\* does not read the desired state.
ReceiveRequest ==
    /\ role_pc = "idle"
    /\ handler' \in {"update", "delete"}
    /\ previous_state' \in PreviousStates
    /\ desired_state' \in IF handler' = "delete" THEN {NoDesiredState} ELSE DesiredStates
    /\ iam_roles' = {previous_state'.RoleName.value}
    /\ iam_attached' =
         {Get(previous_state'.ManagedPolicyArns, <<>>)[i] :
            i \in DOMAIN Get(previous_state'.ManagedPolicyArns, <<>>)}
    /\ iam_inline' \in SUBSET PolicyIds
    /\ role_pc' = handler'
    /\ UNCHANGED <<to_detach, to_delete, to_attach, progress_event, iam_calls>>
    /\ UNCHANGED beyondRole

\* update: change detection; without a change the previous state is returned.
UpdateDetect ==
    /\ role_pc = "update"
    /\ IF \/ name_changed(desired_state, previous_state)
          \/ policy_changed(desired_state, previous_state)
          \/ managed_policy_arns_changed(desired_state, previous_state)
       THEN /\ role_pc' = "delete"
            /\ UNCHANGED progress_event
       ELSE /\ role_pc' = "returned"
            /\ progress_event' = Success(previous_state)
    /\ UNCHANGED <<handler, previous_state, desired_state, to_detach, to_delete,
                   to_attach, iam_roles, iam_attached, iam_inline, iam_calls>>
    /\ UNCHANGED beyondRole

\* delete: iam_client.list_attached_role_policies(RoleName=role_name)
ListAttachedRolePolicies ==
    /\ role_pc = "delete"
    /\ \E ok \in BOOLEAN :
         /\ iam_calls' = Append(iam_calls,
               IamCall("list_attached_role_policies", previous_state.RoleName.value, NoArg, ok))
         /\ to_detach' = IF ok THEN iam_attached ELSE to_detach
         /\ role_pc' = IF ok THEN "detach" ELSE "raised"
    /\ UNCHANGED <<handler, previous_state, desired_state, to_delete, to_attach,
                   progress_event, iam_roles, iam_attached, iam_inline>>
    /\ UNCHANGED beyondRole

\* The listed entry a loop visits next: the responses are in ascending order.
NextListed(listed) == CHOOSE policy \in listed : \A other \in listed : policy <= other

\* A call_safe that lets the exception of the call escape.
call_unsafe_raises(ok) == ~ok

\* call_safe: an exception of the call is swallowed.
call_safe_raises(ok) == FALSE

\* call_safe(iam_client.detach_role_policy, ...) for the next listed policy
DetachRolePolicy ==
    /\ role_pc = "detach"
    /\ to_detach # {}
    /\ \E policy \in {NextListed(to_detach)}, ok \in BOOLEAN :
         /\ iam_calls' = Append(iam_calls,
               IamCall("detach_role_policy", previous_state.RoleName.value, policy, ok))
         /\ iam_attached' = IF ok THEN iam_attached \ {policy} ELSE iam_attached
         /\ to_detach' = to_detach \ {policy}
         /\ role_pc' = IF call_safe_raises(ok) THEN "raised" ELSE "detach"
    /\ UNCHANGED <<handler, previous_state, desired_state, to_delete, to_attach,
                   progress_event, iam_roles, iam_inline>>
    /\ UNCHANGED beyondRole

\* iam_client.list_role_policies(RoleName=role_name)
ListRolePolicies ==
    /\ role_pc = "detach"
    /\ to_detach = {}
    /\ \E ok \in BOOLEAN :
         /\ iam_calls' = Append(iam_calls,
               IamCall("list_role_policies", previous_state.RoleName.value, NoArg, ok))
         /\ to_delete' = IF ok THEN iam_inline ELSE to_delete
         /\ role_pc' = IF ok THEN "delete_inline" ELSE "raised"
    /\ UNCHANGED <<handler, previous_state, desired_state, to_detach, to_attach,
                   progress_event, iam_roles, iam_attached, iam_inline>>
    /\ UNCHANGED beyondRole

\* call_safe(iam_client.delete_role_policy, ...) for the next listed name
DeleteRolePolicy ==
    /\ role_pc = "delete_inline"
    /\ to_delete # {}
    /\ \E policy \in {NextListed(to_delete)}, ok \in BOOLEAN :
         /\ iam_calls' = Append(iam_calls,
               IamCall("delete_role_policy", previous_state.RoleName.value, policy, ok))
         /\ iam_inline' = IF ok THEN iam_inline \ {policy} ELSE iam_inline
         /\ to_delete' = to_delete \ {policy}
         /\ role_pc' = IF call_safe_raises(ok) THEN "raised" ELSE "delete_inline"
    /\ UNCHANGED <<handler, previous_state, desired_state, to_detach, to_attach,
                   progress_event, iam_roles, iam_attached>>
    /\ UNCHANGED beyondRole

\* IAM refuses to delete a role that still has policies.
DeleteRoleAllowed == iam_attached = {} /\ iam_inline = {}

\* iam_client.delete_role(RoleName=role_name); delete returns an empty
\* model, and update goes on to create.
DeleteRole ==
    /\ role_pc = "delete_inline"
    /\ to_delete = {}
    /\ \E ok \in {TRUE, FALSE} \ (IF DeleteRoleAllowed THEN {} ELSE {TRUE}) :
         /\ iam_calls' = Append(iam_calls,
               IamCall("delete_role", previous_state.RoleName.value, NoArg, ok))
         /\ iam_roles' = IF ok THEN iam_roles \ {previous_state.RoleName.value}
                         ELSE iam_roles
         /\ role_pc' = IF ~ok THEN "raised"
                       ELSE IF handler = "update" THEN "create" ELSE "returned"
         /\ progress_event' = IF ok /\ handler = "delete" THEN Success(EmptyModel)
                              ELSE progress_event
    /\ UNCHANGED <<handler, previous_state, desired_state, to_detach, to_delete,
                   to_attach, iam_attached, iam_inline>>
    /\ UNCHANGED beyondRole

\* create: the role name defaults to a generated one and is stored in the
\* model; iam.create_role(...), whose AssumeRolePolicyDocument argument is
\* model["AssumeRolePolicyDocument"].
CreateRole ==
    /\ role_pc = "create"
    /\ LET role_name == IF Truthy(desired_state.RoleName, "")
                        THEN desired_state.RoleName.value
                        ELSE GeneratedName
       IN
         /\ desired_state' = [desired_state EXCEPT !.RoleName = Set(role_name)]
         /\ IF ~desired_state.AssumeRolePolicyDocument.set
            THEN /\ role_pc' = "raised"
                 /\ UNCHANGED <<iam_calls, iam_roles, to_attach>>
            ELSE \E ok \in {TRUE, FALSE} \ (IF role_name \in iam_roles THEN {TRUE} ELSE {}) :
                   /\ iam_calls' = Append(iam_calls, IamCall("create_role", role_name, NoArg, ok))
                   /\ iam_roles' = IF ok THEN iam_roles \cup {role_name} ELSE iam_roles
                   /\ to_attach' = IF ok THEN Get(desired_state.ManagedPolicyArns, <<>>)
                                   ELSE to_attach
                   /\ role_pc' = IF ok THEN "attach" ELSE "raised"
    /\ UNCHANGED <<handler, previous_state, to_detach, to_delete, progress_event,
                   iam_attached, iam_inline>>
    /\ UNCHANGED beyondRole

\* iam.attach_role_policy(RoleName=role_name, PolicyArn=arn), in list order
AttachRolePolicy ==
    /\ role_pc = "attach"
    /\ to_attach # <<>>
    /\ \E ok \in BOOLEAN :
         /\ iam_calls' = Append(iam_calls,
               IamCall("attach_role_policy", desired_state.RoleName.value, Head(to_attach), ok))
         /\ to_attach' = Tail(to_attach)
         /\ role_pc' = IF ok THEN "attach" ELSE "raised"
    /\ UNCHANGED <<handler, previous_state, desired_state, to_detach, to_delete,
                   progress_event, iam_roles, iam_attached, iam_inline>>
    /\ UNCHANGED beyondRole

\* The model create returns: Arn and RoleId added.
CreatedModel(model) ==
    [k \in DOMAIN model \cup {"Arn", "RoleId"} |->
        IF k = "Arn" THEN Set("arn:role") ELSE IF k = "RoleId" THEN Set("role-id")
        ELSE model[k]]

\* iam.put_role_policy(...) for the inline policies, then the ProgressEvent
CreateReturn ==
    /\ role_pc = "attach"
    /\ to_attach = <<>>
    /\ \E ok \in BOOLEAN :
         IF Get(desired_state.Policies, <<>>) # <<>>
         THEN /\ iam_calls' = Append(iam_calls,
                    IamCall("put_role_policy", desired_state.RoleName.value, NoArg, ok))
              /\ role_pc' = IF ok THEN "returned" ELSE "raised"
              /\ progress_event' = IF ok THEN Success(CreatedModel(desired_state))
                                   ELSE progress_event
         ELSE /\ ok
              /\ role_pc' = "returned"
              /\ progress_event' = Success(CreatedModel(desired_state))
              /\ UNCHANGED iam_calls
    /\ UNCHANGED <<handler, previous_state, desired_state, to_detach, to_delete,
                   to_attach, iam_roles, iam_attached, iam_inline>>
    /\ UNCHANGED beyondRole

Init == ExecutionInit /\ ObserverIdle /\ TaskIdle /\ ParallelIdle /\ StateTaskIdle
        /\ RoleIdle

Next ==
    \/ \E t \in Callers : start(t)
    \/ stop
    \/ \E w \in Workers : Worker(w)
    \/ \E w \in Workers : terminated(w)

Spec == Init /\ [][Next]_allVars

\* One start() call, the worker it starts, stop(), and a thread that
\* calls describe() and list while they run.
OnlyCaller == CHOOSE t \in Callers : TRUE

NextObserved ==
    \/ start(OnlyCaller)
    \/ stop
    \/ Worker(OnlyCaller)
    \/ terminated(OnlyCaller)
    \/ Observer

SpecObserved == Init /\ [][NextObserved]_allVars

NextTask ==
    \/ TaskEnter
    \/ TaskInvoke
    \/ TaskRetry
    \/ TaskCatch
    \/ TaskFail

SpecTask == Init /\ [][NextTask]_allVars

NextParallel ==
    \/ ParallelEnter
    \/ \E b \in ParBranches : BranchBeginAppend(b)
    \/ \E b \in ParBranches : BranchCommitAppend(b)
    \/ \E b \in ParBranches : BranchSucceed(b)
    \/ \E b \in ParBranches : BranchFail(b)
    \/ \E b \in ParBranches : BranchObserveCancel(b)
    \/ ParallelJoin

SpecParallel == Init /\ [][NextParallel]_allVars

NextStateTask ==
    \/ FromError
    \/ EvalParameters

SpecStateTask == Init /\ [][NextStateTask]_allVars

NextRole ==
    \/ ReceiveRequest
    \/ UpdateDetect
    \/ ListAttachedRolePolicies
    \/ DetachRolePolicy
    \/ ListRolePolicies
    \/ DeleteRolePolicy
    \/ DeleteRole
    \/ CreateRole
    \/ AttachRolePolicy
    \/ CreateReturn

SpecRole == Init /\ [][NextRole]_allVars

\* ------------------------------------------------------------------- claims
CallbackReturned(w) == wpc[w] = "returned"

\* Nothing is left to run: every call has ended and every worker is either
\* unstarted or through its completion callback.
Quiescent ==
    /\ \A t \in Callers : pc[t] \in {"idle", "InvalidName", "returned", "WorkerAlreadyStarted"}
    /\ stop_pc # "stop_worker"
    /\ \A w \in Workers : wpc[w] \in {"created", "returned", "RuntimeWarning"}

\* The Execution has no worker, or its worker has reached a terminal state.
NoActiveWorker ==
    \/ exec_worker = NoWorker
    \/ program_state[exec_worker].kind \in TerminalKinds

TerminalEvents == {i \in DOMAIN events : events[i].status \in TerminalStatuses}

\* C1: under every interleaving of start() calls the Execution's worker is
\* set at most once: once exec_worker refers to a worker it is never replaced.
C1_WorkerNeverReplaced ==
    [][exec_worker # NoWorker => exec_worker' = exec_worker]_vars

\* C2: a start() call that finds a worker already set ends in InvalidName
\* and changes no field, publishes nothing and starts no worker.
C2_StartConflictChangesNothing ==
    [][\A t \in Callers :
         (pc[t] = "idle" /\ pc'[t] # "idle" /\ exec_worker # NoWorker)
            => /\ pc'[t] = "InvalidName"
               /\ UNCHANGED <<execVars, sinkVars, workerVars>>]_vars

C2_Witness ==
    \E t \in Callers : pc[t] = "InvalidName" /\ exec_status = "RUNNING"

\* C3: a stop() call on an Execution with no active worker (never started,
\* or the worker already terminal) raises, sends no stop signal and changes
\* no field.
C3_StopWithoutActiveWorkerRaises ==
    [][(stop_pc # "stop_worker" /\ stop_pc' # stop_pc /\ NoActiveWorker)
          => /\ stop_pc' = "RuntimeError"
             /\ UNCHANGED <<execVars, stop_signal>>]_vars

\* C4: the status only moves None -> RUNNING -> terminal, and a terminal
\* status never changes again.
C4_StatusOnlyMovesForward ==
    [][exec_status' # exec_status
          => \/ exec_status = None /\ exec_status' = "RUNNING"
             \/ exec_status = "RUNNING" /\ exec_status' \in TerminalStatuses]_vars

\* C5: once a worker's completion callback has returned, the Execution's
\* status, output, error and cause are those of that worker's terminal
\* Program State, and describe() reports them.
C5_FinalFieldsReflectProgramState ==
    \A w \in Workers :
      CallbackReturned(w) =>
        LET state == program_state[w] IN
          /\ exec_status = ExitStatus(state)
          /\ to_describe_output.status = ExitStatus(state)
          /\ state.kind = "ProgramEnded" =>
               /\ output = to_json_str(env_inp[w])
               /\ to_describe_output.output = to_json_str(env_inp[w])
          /\ state.kind = "ProgramError" =>
               /\ error = state.error /\ cause = state.cause
               /\ to_describe_output.error = state.error
               /\ to_describe_output.cause = state.cause

\* C6: the completion callback runs at most once, so at most one
\* notification with a terminal status is published, exactly one once the
\* callback has returned, and a RUNNING notification precedes it.
C6_OneTerminalNotification ==
    /\ Cardinality({w \in Workers : wpc[w] \notin
          {"created", "eval", "wait", "join", "terminated"}}) <= 1
    /\ Cardinality(TerminalEvents) <= 1
    /\ (\E w \in Workers : CallbackReturned(w)) => Cardinality(TerminalEvents) = 1
    /\ \A i \in TerminalEvents : \E j \in 1..(i - 1) : events[j].status = "RUNNING"

\* C7: once a stop signal has reached a running worker the execution ends
\* ABORTED, and when it is ABORTED no child Environment is still running.
C7_StopConvergesToAborted ==
    /\ (Quiescent /\ \E w \in Workers : stop_signal[w]) => exec_status = "ABORTED"
    /\ exec_status = "ABORTED" => \A w \in Workers : branches[w] = 0

\* C8: a worker suspended in a Wait whose stop signal is set leaves the
\* wait only by becoming Stopped: the timer never has to expire and the
\* state after the Wait is not entered.
C8_StopInterruptsWait ==
    [][\A w \in Workers :
         (wpc[w] = "wait" /\ stop_signal[w] /\ wpc'[w] # "wait")
            => /\ program_state'[w] = ProgramStopped
               /\ wpc'[w] = "terminated"]_vars

C8_Witness ==
    \E w \in Workers : wpc[w] = "wait" /\ stop_signal[w]

\* C9: a put_events failure changes no field of the Execution and the
\* method that published continues as it does after a delivery: start()
\* goes on to start the worker with the status RUNNING it has set, the
\* completion callback returns normally.
C9_PublishFailureIsSwallowed ==
    [][(Len(events') > Len(events) /\ put_events_result' = "raised")
          => /\ UNCHANGED execVars
             /\ \A t \in Callers :
                  pc'[t] # pc[t] => pc'[t] = "start_worker"
             /\ \A w \in Workers :
                  wpc'[w] # wpc[w] => wpc'[w] = "returned"]_vars

C9_Witness ==
    /\ put_events_result = "raised"
    /\ events # <<>>
    /\ events[Len(events)].status \in TerminalStatuses
    /\ \E w \in Workers :
         CallbackReturned(w) /\ exec_status = ExitStatus(program_state[w])

RetryEntries == Cardinality({i \in DOMAIN history : history[i] = "Retry"})

\* C10: a Task whose collaborator fails k times with an error the Retrier
\* matches and then succeeds, with k <= MaxAttempts, succeeds after exactly
\* k retries (k+1 invocations, k retry entries in the history); the attempt
\* counter never exceeds MaxAttempts and the Task is never run more than
\* MaxAttempts + 1 times.
C10_RetryUntilSuccess ==
    /\ attempts <= retrier.max_attempts
    /\ invocations <= retrier.max_attempts + 1
    /\ (task_pc \in {"succeeded", "caught", "failed"}
          /\ fail_plan <= retrier.max_attempts
          /\ (fail_plan > 0 => RetrierMatches(retrier, task_error)))
         => task_pc = "succeeded"
    /\ task_pc = "succeeded"
         => /\ attempts = fail_plan
            /\ invocations = fail_plan + 1
            /\ RetryEntries = fail_plan
            /\ history[Len(history)] = "TaskSucceeded"

\* The spec's case: two failures, MaxAttempts 3, then success.
C10_Witness ==
    /\ task_pc = "succeeded"
    /\ fail_plan = 2
    /\ retrier.max_attempts = 3
    /\ retrier.error_equals = {"States.TaskFailed"}
    /\ task_error = "States.TaskFailed"
    /\ retrier.interval_seconds = 0
    /\ RetryEntries = 2

TaskEnded == task_pc \in {"succeeded", "caught", "failed"}

\* C11: a Task whose catcher's ErrorEquals is States.ALL never ends in
\* Errored; a failure no retrier retries goes to the catcher's Next state
\* with the failure document merged at the catcher's ResultPath; the
\* FailureEvent propagates only when no catcher matches.
C11_CatchAllNeverErrored ==
    /\ catcher.error_equals = {"States.ALL"} => task_pc # "failed"
    /\ (TaskEnded /\ catcher.error_equals = {"States.ALL"} /\ fail_plan = MaxFailures)
          => task_pc = "caught"
    /\ task_pc = "failed"
          => /\ task_error \notin catcher.error_equals
             /\ next_state = None
             /\ task_output = NoDoc
    /\ task_pc = "caught"
          => /\ next_state = "Fallback"
             /\ history[Len(history) - 1] = "TaskFailed"
             /\ (RetrierMatches(retrier, task_error) => attempts = retrier.max_attempts)
             /\ catcher.result_path = "absent"
                   => task_output = [Error |-> task_error, Cause |-> "invocation failed"]
             /\ catcher.result_path = "$.error"
                   => /\ task_output.a = "in"
                      /\ task_output.error.Error = task_error
             /\ catcher.result_path = "$.a"
                   => /\ DOMAIN task_output = {"a"}
                      /\ task_output.a.Error = task_error

\* The spec's case with retries first: the invocation always fails, the
\* retrier is exhausted, the States.ALL catcher takes over.
C11_Witness ==
    /\ task_pc = "caught"
    /\ catcher.error_equals = {"States.ALL"}
    /\ catcher.result_path = "$.error"
    /\ fail_plan = MaxFailures
    /\ attempts = retrier.max_attempts
    /\ attempts > 0

SomeBranchFailed == \E b \in ParBranches : branch_pc[b] = "failed"

\* C12: once a branch of a Parallel state has failed, the parent's outcome is
\* failed and every sibling has been signalled; the parent finalizes only
\* when no branch is still running; a Parallel with a failed branch ends in
\* Errored and no output is ever produced for it.
C12_ParallelFailureJoin ==
    /\ \A b \in ParBranches :
         branch_pc[b] = "failed"
            => /\ par_outcome = "failed"
               /\ \A s \in ParBranches \ {b} : branch_signal[s]
    /\ par_pc = "finalized"
          => \A b \in ParBranches : branch_pc[b] \in {"succeeded", "failed", "stopped"}
    /\ (par_pc = "finalized" /\ SomeBranchFailed)
          => par_program_state = "ProgramError"
    /\ SomeBranchFailed => par_output = NoDoc
    /\ par_output # NoDoc
          => \A b \in ParBranches : branch_pc[b] = "succeeded"

\* The spec's case: B1 succeeds, B2 fails at once, and B1's Environment has
\* the cancellation signal when the execution has finalized.
C12_Witness ==
    /\ par_pc = "finalized"
    /\ par_program_state = "ProgramError"
    /\ branch_pc[1] = "succeeded"
    /\ branch_pc[2] = "failed"
    /\ branch_signal[1]
    /\ Len(event_history) = 2

\* C13: the identifiers of the history events strictly increase in append
\* order, whatever the interleaving of the branches' appends.
C13_EventIdsIncrease ==
    \A i, j \in DOMAIN event_history :
        i < j => event_history[i].id < event_history[j].id

\* Two branches have appended interleaved.
C13_Witness ==
    \E i, j, k \in DOMAIN event_history :
        /\ i < j /\ j < k
        /\ event_history[i].branch = 1
        /\ event_history[j].branch = 2
        /\ event_history[k].branch = 1

\* C14: name, roleArn, executionArn, the state-machine reference, startDate
\* and input keep the values the Execution was constructed with, whatever
\* start(), stop(), the completion callback and the read operations do.
C14_FinalFieldsFixed ==
    /\ name = NameArg
    /\ role_arn = RoleArnArg
    /\ exec_arn = ExecArnArg
    /\ state_machine = StateMachineArg
    /\ start_date = StartDateArg
    /\ input_data = InputDataArg
    /\ to_describe_output.input = to_json_str(InputDataArg)
    /\ to_describe_output.startDate = StartDateArg

\* start(), stop() and the callback have all run and written the other fields.
C14_Witness ==
    /\ \E t \in Callers : pc[t] = "returned"
    /\ stop_pc = "returned"
    /\ \E w \in Workers : wpc[w] = "returned"
    /\ exec_worker # NoWorker
    /\ exec_status = "SUCCEEDED"
    /\ stop_date # None
    /\ output # None

\* C15: a describe() response that reports SUCCEEDED carries the final
\* output, and one that reports FAILED carries error and cause, also when
\* describe() runs while the completion callback runs.
C15_TerminalDescribeIsComplete ==
    obs_pc = "described"
       => /\ describe_output.status = "SUCCEEDED"
               => describe_output.output \notin {None, "absent"}
          /\ describe_output.status = "FAILED"
               => /\ describe_output.error \notin {None, "absent"}
                  /\ describe_output.cause \notin {None, "absent"}

\* C16: what describe() and list return has a stopDate exactly when its
\* status is SUCCEEDED, FAILED or ABORTED.
C16_StopDateIffTerminal ==
    /\ obs_pc = "described"
          => (describe_output.stopDate # None
                 <=> describe_output.status \in TerminalStatuses)
    /\ obs_pc = "listed"
          => (execution_list_item.stopDate # None
                 <=> execution_list_item.status \in TerminalStatuses)

\* C17: a completion callback that read a Program State other than Ended,
\* Stopped or Errored raises RuntimeWarning; its steps publish nothing and
\* leave status, output, error and cause as they were.
C17_NonTerminalExitRaises ==
    [][\A w \in Workers :
         /\ (/\ wpc[w] \in {"set_stop_date", "set_status"}
             /\ exit_program_state[w].kind \notin TerminalKinds
             /\ wpc'[w] # wpc[w])
               => /\ UNCHANGED <<exec_status, output, error, cause, events>>
                  /\ wpc[w] = "set_stop_date" => wpc'[w] = "set_status"
                  /\ wpc[w] = "set_status" => wpc'[w] = "RuntimeWarning"
         /\ wpc[w] = "RuntimeWarning" => wpc'[w] = "RuntimeWarning"]_allVars

\* A callback has raised RuntimeWarning after stamping the stop date.
C17_Witness ==
    \E w \in Workers :
        /\ wpc[w] = "RuntimeWarning"
        /\ exit_program_state[w].kind \notin TerminalKinds
        /\ stop_date # None

\* C18: _from_error maps a TimeoutError to the FailureEvent States.Timeout /
\* TaskTimedOut; every other exception gets the generic mapping's event,
\* which is not the timeout event.
C18_TimeoutErrorMapsToStatesTimeout ==
    /\ raised_ex.type = "TimeoutError"
          => /\ failure_event.error_name = "States.Timeout"
             /\ failure_event.event_type = "TaskTimedOut"
             /\ failure_event.error = "States.Timeout"
    /\ raised_ex.type = "FailureEventException"
          => failure_event = raised_ex.failure_event
    /\ raised_ex.type \in {"KeyError", "Exception"}
          => /\ failure_event.error_name = "States.TaskFailed"
             /\ failure_event.event_type = "TaskFailed"
    /\ raised_ex.type \notin {None, "TimeoutError"}
          => /\ failure_event.error_name # "States.Timeout"
             /\ failure_event.event_type # "TaskTimedOut"

\* A TimeoutError has been mapped.
C18_Witness ==
    /\ raised_ex.type = "TimeoutError"
    /\ failure_event.event_type = "TaskTimedOut"

\* C19: _eval_parameters leaves the value stack as it found it; without
\* Parameters it returns the empty document; with a non-empty supported set
\* the returned names are all in the set and keep their values; with no or
\* an empty supported set nothing is removed.
C19_EvalParametersFilters ==
    /\ env_stack = stack_at_entry
    /\ parameters.none => eval_parameters_result = EmptyDocument
    /\ (~supported_parameters.none /\ supported_parameters.keys # {})
          => /\ DOMAIN eval_parameters_result \subseteq supported_parameters.keys
             /\ DOMAIN eval_parameters_result \subseteq DOMAIN parameters.doc
             /\ \A k \in DOMAIN eval_parameters_result :
                    eval_parameters_result[k] = parameters.doc[k]
    /\ (supported_parameters.none \/ supported_parameters.keys = {})
          => eval_parameters_result = parameters.doc

\* Parameters with a supported and an unsupported name, on a non-empty stack.
C19_Witness ==
    /\ ~parameters.none
    /\ DOMAIN parameters.doc = {"FunctionName", "Extra"}
    /\ supported_parameters.keys = {"FunctionName"}
    /\ DOMAIN eval_parameters_result = {"FunctionName"}
    /\ Len(stack_at_entry) = MaxStackDepth

\* C20: after every evaluation of a Task state's body, ended normally or by
\* a raised failure, the "Task" entry of the context object is None.
C20_TaskContextReset ==
    TaskEnded => context_task = None

RoleCalls(op) == {i \in DOMAIN iam_calls : iam_calls[i].op = op}
RoleEnded == role_pc \in {"returned", "raised"}
PreviousRoleName == previous_state.RoleName.value
PreviousArns ==
    IF previous_state.ManagedPolicyArns.set
    THEN previous_state.ManagedPolicyArns.value ELSE <<>>
DesiredArns ==
    IF desired_state.ManagedPolicyArns.set
    THEN desired_state.ManagedPolicyArns.value ELSE <<>>
\* The claim's condition for a replacement. create stores a generated name
\* in the desired state when none was set.
ReplacementNeeded ==
    \/ /\ desired_state.RoleName.set
       /\ desired_state.RoleName.value \notin {"", GeneratedName, PreviousRoleName}
    \/ /\ desired_state.AssumeRolePolicyDocument.set
       /\ desired_state.AssumeRolePolicyDocument.value # ""
       /\ \/ ~previous_state.AssumeRolePolicyDocument.set
          \/ desired_state.AssumeRolePolicyDocument.value
               # previous_state.AssumeRolePolicyDocument.value
    \/ DesiredArns # PreviousArns

\* C21: update replaces the role exactly when the desired RoleName is set and
\* differs, or the desired AssumeRolePolicyDocument is set and differs, or
\* the ManagedPolicyArns lists differ; then every create_role call comes
\* after a successful delete_role of the previous role, which is gone from
\* IAM by then; otherwise update makes no IAM call and returns SUCCESS with
\* the previous state.
C21_UpdateReplacesIffChanged ==
    (handler = "update" /\ role_pc # "update")
      => /\ ~ReplacementNeeded
              => /\ role_pc = "returned"
                 /\ iam_calls = <<>>
                 /\ progress_event.status = "SUCCESS"
                 /\ progress_event.resource_model = previous_state
         /\ ReplacementNeeded
              => /\ role_pc = "delete" \/ iam_calls # <<>>
                 /\ role_pc = "returned"
                      => /\ \E j \in RoleCalls("create_role") : iam_calls[j].ok
                         /\ progress_event.status = "SUCCESS"
                         /\ progress_event.resource_model.RoleName = desired_state.RoleName
         /\ \A j \in RoleCalls("create_role") :
              /\ iam_calls[j].role =
                   IF desired_state.RoleName.value = "" THEN GeneratedName
                   ELSE desired_state.RoleName.value
              /\ \E i \in RoleCalls("delete_role") :
                   /\ i < j
                   /\ iam_calls[i].ok
                   /\ iam_calls[i].role = PreviousRoleName
                   /\ \A k \in 1..(j - 1) : iam_calls[k].role = PreviousRoleName
         /\ role_pc = "create"
              => /\ PreviousRoleName \notin iam_roles
                 /\ iam_attached = {}
                 /\ iam_inline = {}

\* A role is replaced under its own name because its policy document
\* changed: policies detached, role deleted, role created again.
C21_Witness ==
    /\ handler = "update"
    /\ role_pc = "returned"
    /\ desired_state.RoleName.value = PreviousRoleName
    /\ previous_state.AssumeRolePolicyDocument.set
    /\ desired_state.AssumeRolePolicyDocument.value = "doc2"
    /\ DesiredArns = PreviousArns
    /\ RoleCalls("detach_role_policy") # {}
    /\ RoleCalls("delete_role") # {}
    /\ RoleCalls("create_role") # {}
    /\ PreviousRoleName \in iam_roles

DeleteOver == role_pc \in {"create", "attach", "returned", "raised"}
ListReturned(op) == \E i \in RoleCalls(op) : iam_calls[i].ok
ListedAttached == {PreviousArns[n] : n \in DOMAIN PreviousArns}

====
